---- MODULE Spec2Model ----
(***************************************************************************)
(* Model of the uefi crate's Simple Network Protocol binding               *)
(* (uefi/src/proto/network/snp.rs) and of the helper lifecycle             *)
(* (uefi/src/helpers/mod.rs).                                              *)
(*                                                                         *)
(* Machine words are kept at their width.  TLC's integers are 32 bit, so a *)
(* word is a tuple of 16-bit limbs, most significant limb first: a u64 or  *)
(* usize (the UEFI targets of snp.rs are 64 bit) is four limbs, a u32 two. *)
(***************************************************************************)
EXTENDS Integers, Sequences, FiniteSets, TLC

\* ------------------------------------------------------------ machine words

LimbBase == 2 ^ 16
LimbMax  == LimbBase - 1
LimbHigh == 2 ^ 15

\* Option<T>: None is the empty tuple, Some(x) the one-element tuple.
None == << >>
Some(x) == << x >>
IsSome(o) == Len(o) = 1
Unwrap(o) == o[1]

\* usize / u64 values used by the model.
WordOf(n) == << 0, 0, 0, n >>
WordZero == WordOf(0)
WordAllOnes == << LimbMax, LimbMax, LimbMax, LimbMax >>

\* The top bit of a word (bit 63 of a usize / u64).
HighBitSet(w) == w[1] >= LimbHigh

\* w1 <= w2 as unsigned numbers.
WordLeq(w1, w2) ==
    \/ w1 = w2
    \/ \E i \in 1..Len(w1) :
          /\ w1[i] < w2[i]
          /\ \A j \in 1..(i - 1) : w1[j] = w2[j]

\* usize addition, limb by limb with carry; the carry out of the top limb
\* is the overflow flag.
AddCarry(a, b) ==
    LET s4 == a[4] + b[4]
        s3 == a[3] + b[3] + (s4 \div LimbBase)
        s2 == a[2] + b[2] + (s3 \div LimbBase)
        s1 == a[1] + b[1] + (s2 \div LimbBase)
    IN  [sum |-> << s1 % LimbBase, s2 % LimbBase, s3 % LimbBase, s4 % LimbBase >>,
         overflow |-> (s1 \div LimbBase) = 1]

\* Bitwise AND of two limbs of n bits.
RECURSIVE LimbAnd(_, _, _)
LimbAnd(x, y, n) ==
    IF n = 0 THEN 0
    ELSE ((x % 2) * (y % 2)) + 2 * LimbAnd(x \div 2, y \div 2, n - 1)

\* Bitwise AND of two words.
BitAnd(w1, w2) == [i \in 1..Len(w1) |-> LimbAnd(w1[i], w2[i], 16)]

\* ------------------------------------------------------------ Status, Result

\* Status codes the firmware may return: EFI_SUCCESS, a warning
\* (EFI_WARN_UNKNOWN_GLYPH), the largest code without the high bit, and the
\* errors EFI_BUFFER_TOO_SMALL, EFI_NOT_READY and the all-ones code.
EFI_SUCCESS == WordZero
EFI_WARN_UNKNOWN_GLYPH == WordOf(1)
MaxWarning == << LimbHigh - 1, LimbMax, LimbMax, LimbMax >>
EFI_BUFFER_TOO_SMALL == << LimbHigh, 0, 0, 5 >>
EFI_NOT_READY == << LimbHigh, 0, 0, 6 >>
StatusCodes ==
    { EFI_SUCCESS, EFI_WARN_UNKNOWN_GLYPH, MaxWarning,
      EFI_BUFFER_TOO_SMALL, EFI_NOT_READY, WordAllOnes }

Unit == << >>
Ok(v) == [kind |-> "Ok", status |-> None, val |-> v]
Err(s) == [kind |-> "Err", status |-> Some(s), val |-> Unit]
Panic(msg) == [kind |-> "Panic", status |-> None, val |-> msg]
NoResult == [kind |-> "NoResult", status |-> None, val |-> Unit]

\* Status::is_error: the high bit of the code is set.
is_error(status) == HighBitSet(status)

\* impl From<Status> for Result: success and warning codes give Ok(()),
\* error codes give Err carrying the code.
from_status(status) == IF is_error(status) THEN Err(status) ELSE Ok(Unit)

\* ------------------------------------------------------------ bounds, inputs

\* Small sizes (buffer lengths, header sizes, filter counts) are 0..MaxSmall.
MaxSmall == 2
\* Longest multicast filter list a caller passes.
MaxMcast == 2

BOOL == { TRUE, FALSE }
SmallWords == { WordOf(n) : n \in 0..MaxSmall }
\* Sizes: the small ones, an Ethernet header (14), a minimum payload (46),
\* a 60 and a 64 byte frame, and the extremes of usize.
Sizes == SmallWords \cup { WordOf(14), WordOf(46), WordOf(60), WordOf(64),
                           << LimbHigh, 0, 0, 0 >>, WordAllOnes }
HeaderSizes == { WordZero, WordOf(1), WordOf(14), WordAllOnes }
BufferLens == SmallWords \cup { WordOf(46), WordOf(64) }
\* A byte slice: where it starts and how long it is.
Buffers == { [ptr |-> "buf", len |-> l] : l \in BufferLens }
OptSizes == { None } \cup { Some(w) : w \in SmallWords }

Macs == { "mac_a", "mac_b" }
MacZero == "mac_zero"
OptMacs == { None } \cup { Some(m) : m \in Macs }
OptProtocols == { None, Some(2048), Some(34525) }
OptDst == { None, Some("dst") }
McastLists == UNION { [1..n -> Macs] : n \in 0..MaxMcast }
OptMcastLists == { None } \cup { Some(l) : l \in McastLists }
OptCounts == { None } \cup { Some(WordOf(n)) : n \in 0..(MaxMcast + 1) }
Pointers == { "null", "txbuf" }

\* u32 values, two limbs.
U32Of(n) == << 0, n >>
U32Samples ==
    { << h, l >> : h \in { 0, 1, LimbHigh, LimbMax },
                   l \in (0..31) \cup { LimbMax - 15, LimbMax - 10, LimbMax } }
FilterMasks == { U32Of(0), U32Of(1), U32Of(31) }

\* ------------------------------------------------------------ InterruptStatus

InterruptStatus_new == U32Of(0)
receive_interrupt(self) == BitAnd(self, U32Of(1)) # U32Of(0)
transmit_interrupt(self) == BitAnd(self, U32Of(2)) # U32Of(0)
\* Mutant: the command accessor tests the software bit.
command_interrupt_wrong_mask(self) == BitAnd(self, U32Of(8)) # U32Of(0)
command_interrupt(self) == BitAnd(self, U32Of(4)) # U32Of(0)
software_interrupt(self) == BitAnd(self, U32Of(8)) # U32Of(0)

\* ------------------------------------------------------------ NetworkStats

\* The fields of struct NetworkStats, in declaration order.
StatsFields ==
    << "rx_total_frames", "rx_good_frames", "rx_undersize_frames",
       "rx_oversize_frames", "rx_dropped_frames", "rx_unicast_frames",
       "rx_broadcast_frames", "rx_multicast_frames", "rx_crc_error_frames",
       "rx_total_bytes", "tx_total_frames", "tx_good_frames",
       "tx_undersize_frames", "tx_oversize_frames", "tx_dropped_frames",
       "tx_unicast_frames", "tx_broadcast_frames", "tx_multicast_frames",
       "tx_crc_error_frames", "tx_total_bytes", "collisions",
       "unsupported_protocol", "rx_duplicated_frames",
       "rx_decrypt_error_frames", "tx_error_frames", "tx_retry_frames" >>
FieldNames == { StatsFields[i] : i \in 1..Len(StatsFields) }

\* #[derive(Default)]: every counter is zero.
NetworkStats_default == [f \in FieldNames |-> WordZero]

\* size_of::<u64>() and size_of::<NetworkStats>() (repr(C), u64 fields only).
U64Bytes == 8
NetworkStats_size == WordOf(Len(StatsFields) * U64Bytes)

\* `stat as i64`: the same 64 bits read as a two's complement number,
\* given as sign and magnitude.
AsI64(stat) ==
    IF HighBitSet(stat)
    THEN [neg |-> TRUE,
          mag |-> AddCarry([i \in 1..4 |-> LimbMax - stat[i]], WordOf(1)).sum]
    ELSE [neg |-> FALSE, mag |-> stat]
I64MinusOne == [neg |-> TRUE, mag |-> WordOf(1)]

available(stat) == AsI64(stat) # I64MinusOne
to_option(stat) == IF available(stat) THEN Some(stat) ELSE None

\* Which field each public accessor hands to to_option.
AccessorField ==
    [ rx_total_frames |-> "rx_total_frames",
      rx_good_frames |-> "rx_good_frames",
      rx_undersize_frames |-> "rx_undersize_frames",
      rx_oversize_frames |-> "rx_oversize_frames",
      rx_dropped_frames |-> "rx_dropped_frames",
      rx_unicast_frames |-> "rx_unicast_frames",
      rx_broadcast_frames |-> "rx_broadcast_frames",
      rx_multicast_frames |-> "rx_multicast_frames",
      rx_crc_error_frames |-> "rx_crc_error_frames",
      rx_total_bytes |-> "rx_total_bytes",
      tx_total_frames |-> "tx_total_frames",
      tx_good_frames |-> "tx_good_frames",
      tx_undersize_frames |-> "tx_undersize_frames",
      tx_oversize_frames |-> "tx_oversize_frames",
      tx_dropped_frames |-> "tx_dropped_frames",
      tx_unicast_frames |-> "tx_unicast_frames",
      tx_broadcast_frames |-> "tx_broadcast_frames",
      tx_multicast_frames |-> "tx_multicast_frames",
      tx_crc_error_frames |-> "tx_crc_error_frames",
      tx_total_bytes |-> "tx_total_bytes",
      collisions |-> "collisions",
      unsupported_protocol |-> "unsupported_protocol",
      rx_duplicated_frames |-> "rx_duplicated_frames",
      rx_decrypt_error_frames |-> "rx_decrypt_error_frames",
      tx_error_frames |-> "tx_error_frames",
      tx_retry_frames |-> "tx_retry_frames" ]
Accessors == DOMAIN AccessorField

\* Mutant: a copied accessor that still reads the field it was copied from.
stat_accessor_copied(self, name) ==
    to_option(self[IF name = "tx_total_bytes" THEN "rx_total_bytes"
                   ELSE AccessorField[name]])

\* pub fn <accessor>(&self) -> Option<u64>
stat_accessor(self, name) == to_option(self[AccessorField[name]])

\* Counter values the firmware may report.
StatValues == { WordZero, WordOf(1), WordAllOnes,
                << LimbMax, LimbMax, LimbMax, LimbMax - 1 >>,
                << LimbHigh, 0, 0, 0 >> }
\* Statistics tables the firmware may write: one field holds v, the rest w.
StatsTables ==
    { [f \in FieldNames |-> IF f = g THEN v ELSE w] :
        g \in FieldNames, v \in StatValues, w \in { WordZero, WordAllOnes } }

\* ------------------------------------------------------------ state

VARIABLES
    overflow_checks,    \* build profile: does usize `+` panic on overflow?
    invoked,            \* the SimpleNetwork method last called, with its arguments
    fw_calls,           \* the firmware entries that call invoked, with the arguments passed
    fw_rets,            \* what the firmware returned: status and out-parameters
    result,             \* what the method returned to its caller
    observed,           \* accessor values the caller read from the returned value
    get_status_log,     \* history: who called get_status with which out-parameters
    features,           \* helpers: the Cargo features compiled in
    boot_services_active, \* helpers: FALSE once boot services are exited
    logger_output,      \* helpers: the logger's firmware text output
    allocator_boot,     \* helpers: the allocator's boot services reference
    helper_last,        \* helpers: the helper function last called and its outcome
    helper_calls        \* helpers: how often init and exit have run

snpVars == << overflow_checks, invoked, fw_calls, fw_rets, result, observed,
              get_status_log >>
helperVars == << features, boot_services_active, logger_output, allocator_boot,
                 helper_last, helper_calls >>
vars == << snpVars, helperVars >>

\* The caller holds no result: it is between two method calls.
Idle == invoked.method = "none"

\* One method invocation that makes one firmware call.
Invoke(method, margs, entry, eargs, status, out, res) ==
    /\ invoked' = [method |-> method, args |-> margs]
    /\ fw_calls' = << [entry |-> entry, args |-> eargs] >>
    /\ fw_rets' = << [status |-> status, out |-> out] >>
    /\ result' = res
    /\ observed' = None
    /\ UNCHANGED << overflow_checks, helperVars >>

\* ------------------------------------------------------------ SimpleNetwork

start ==
    /\ Idle
    /\ \E status \in StatusCodes :
        /\ Invoke("start", Unit, "start", Unit, status, Unit, from_status(status))
        /\ UNCHANGED get_status_log

stop ==
    /\ Idle
    /\ \E status \in StatusCodes :
        /\ Invoke("stop", Unit, "stop", Unit, status, Unit, from_status(status))
        /\ UNCHANGED get_status_log

initialize ==
    /\ Idle
    /\ \E extra_rx_buffer_size \in OptSizes, extra_tx_buffer_size \in OptSizes,
       status \in StatusCodes :
        /\ Invoke("initialize",
                  [extra_rx_buffer_size |-> extra_rx_buffer_size,
                   extra_tx_buffer_size |-> extra_tx_buffer_size],
                  "initialize",
                  [extra_recv_buffer_size |-> extra_rx_buffer_size,
                   extra_transmit_buffer_size |-> extra_tx_buffer_size],
                  status, Unit, from_status(status))
        /\ UNCHANGED get_status_log

reset ==
    /\ Idle
    /\ \E extended_verification \in BOOL, status \in StatusCodes :
        /\ Invoke("reset", [extended_verification |-> extended_verification],
                  "reset", [extended_verification |-> extended_verification],
                  status, Unit, from_status(status))
        /\ UNCHANGED get_status_log

shutdown ==
    /\ Idle
    /\ \E status \in StatusCodes :
        /\ Invoke("shutdown", Unit, "shutdown", Unit, status, Unit,
                  from_status(status))
        /\ UNCHANGED get_status_log

\* The arguments receive_filters hands to the firmware entry.
receive_filters_args(enable, disable, reset_mcast_filter, mcast_filter_count, mcast_filter) ==
    [enable |-> enable, disable |-> disable,
     reset_mcast_filter |-> reset_mcast_filter,
     mcast_filter_count |-> mcast_filter_count,
     mcast_filter |-> mcast_filter]

receive_filters ==
    /\ Idle
    /\ \E enable \in FilterMasks, disable \in { U32Of(0), U32Of(1) },
       reset_mcast_filter \in BOOL, mcast_filter_count \in OptCounts,
       mcast_filter \in OptMcastLists, status \in StatusCodes :
        /\ Invoke("receive_filters",
                  [enable |-> enable, disable |-> disable,
                   reset_mcast_filter |-> reset_mcast_filter,
                   mcast_filter_count |-> mcast_filter_count,
                   mcast_filter |-> mcast_filter],
                  "receive_filters",
                  receive_filters_args(enable, disable, reset_mcast_filter,
                                       mcast_filter_count, mcast_filter),
                  status, Unit, from_status(status))
        /\ UNCHANGED get_status_log

station_address ==
    /\ Idle
    /\ \E reset_ \in BOOL, new \in OptMacs, status \in StatusCodes :
        /\ Invoke("station_address", [reset |-> reset_, new |-> new],
                  "station_address", [reset |-> reset_, new |-> new],
                  status, Unit, from_status(status))
        /\ UNCHANGED get_status_log

\* The arguments reset_statistics hands to the statistics entry.
reset_statistics_args ==
    [reset |-> TRUE, stats_size |-> None, stats_table |-> None]

reset_statistics ==
    /\ Idle
    /\ \E status \in StatusCodes :
        /\ Invoke("reset_statistics", Unit, "statistics", reset_statistics_args,
                  status, Unit, from_status(status))
        /\ UNCHANGED get_status_log

\* Mutant: the size of the table is passed as a count of fields, not bytes.
collect_statistics_args_fields ==
    [reset |-> FALSE, stats_size |-> Some(WordOf(Len(StatsFields))),
     stats_table |-> Some(NetworkStats_default)]

\* The arguments collect_statistics hands to the statistics entry.
collect_statistics_args ==
    [reset |-> FALSE, stats_size |-> Some(NetworkStats_size),
     stats_table |-> Some(NetworkStats_default)]

\* Mutant: the status is dropped and the table returned whatever it is.
collect_statistics_result_swallow(status, stats_table) == Ok(stats_table)

\* `Result::from(status)?; Ok(stats_table)`
collect_statistics_result(status, stats_table) ==
    IF from_status(status).kind = "Err" THEN from_status(status)
    ELSE Ok(stats_table)

\* The firmware fills the table, or part of it, or leaves it as it was.
collect_statistics ==
    /\ Idle
    /\ \E status \in StatusCodes,
       stats_table \in StatsTables \cup { NetworkStats_default } :
        /\ Invoke("collect_statistics", Unit, "statistics", collect_statistics_args,
                  status, [stats_table |-> stats_table],
                  collect_statistics_result(status, stats_table))
        /\ UNCHANGED get_status_log

\* `Result::from(status)?; Ok(mac_address)`
mcast_ip_to_mac_result(status, mac_address) ==
    IF from_status(status).kind = "Err" THEN from_status(status)
    ELSE Ok(mac_address)

mcast_ip_to_mac ==
    /\ Idle
    /\ \E ipv6 \in BOOL, ip \in { "ip_a", "ip_b" }, status \in StatusCodes,
       mac_address \in Macs \cup { MacZero } :
        /\ Invoke("mcast_ip_to_mac", [ipv6 |-> ipv6, ip |-> ip],
                  "mcast_ip_to_mac", [ipv6 |-> ipv6, ip |-> ip, mac |-> MacZero],
                  status, [mac |-> mac_address],
                  mcast_ip_to_mac_result(status, mac_address))
        /\ UNCHANGED get_status_log

read_nv_data ==
    /\ Idle
    /\ \E offset \in SmallWords, buffer_size \in SmallWords, status \in StatusCodes :
        /\ Invoke("read_nv_data",
                  [offset |-> offset, buffer_size |-> buffer_size, buffer |-> "nvbuf"],
                  "nv_data",
                  [read_write |-> TRUE, offset |-> offset,
                   buffer_size |-> buffer_size, buffer |-> "nvbuf"],
                  status, Unit, from_status(status))
        /\ UNCHANGED get_status_log

write_nv_data ==
    /\ Idle
    /\ \E offset \in SmallWords, buffer_size \in SmallWords, status \in StatusCodes :
        /\ Invoke("write_nv_data",
                  [offset |-> offset, buffer_size |-> buffer_size, buffer |-> "nvbuf"],
                  "nv_data",
                  [read_write |-> FALSE, offset |-> offset,
                   buffer_size |-> buffer_size, buffer |-> "nvbuf"],
                  status, Unit, from_status(status))
        /\ UNCHANGED get_status_log

\* The out-parameters a get_status call was made with.
GetStatusEntry(method, eargs) ==
    [method |-> method, interrupt_status |-> IsSome(eargs.interrupt_status),
     tx_buf |-> IsSome(eargs.tx_buf)]

\* The arguments get_interrupt_status hands to the get_status entry.
get_interrupt_status_args ==
    [interrupt_status |-> Some(InterruptStatus_new), tx_buf |-> None]

\* `Result::from(status)?; Ok(interrupt_status)`
get_interrupt_status_result(status, interrupt_status) ==
    IF from_status(status).kind = "Err" THEN from_status(status)
    ELSE Ok(interrupt_status)

\* The firmware writes the interrupt bits; U32Of(0) is also "left as it was".
get_interrupt_status ==
    /\ Idle
    /\ \E status \in StatusCodes, interrupt_status \in U32Samples :
        /\ Invoke("get_interrupt_status", Unit, "get_status",
                  get_interrupt_status_args,
                  status, [interrupt_status |-> interrupt_status],
                  get_interrupt_status_result(status, interrupt_status))
        /\ get_status_log' = get_status_log \cup
              { GetStatusEntry("get_interrupt_status", get_interrupt_status_args) }

\* The arguments get_recycled_transmit_buffer_status hands to get_status.
get_recycled_transmit_buffer_status_args ==
    [interrupt_status |-> None, tx_buf |-> Some("null")]

\* `Result::from(status)?; if tx_buf == null { Ok(None) } else { Ok(Some(..)) }`
get_recycled_transmit_buffer_status_result(status, tx_buf) ==
    IF from_status(status).kind = "Err" THEN from_status(status)
    ELSE IF tx_buf = "null" THEN Ok(None)
    ELSE Ok(Some(tx_buf))

get_recycled_transmit_buffer_status ==
    /\ Idle
    /\ \E status \in StatusCodes, tx_buf \in Pointers :
        /\ Invoke("get_recycled_transmit_buffer_status", Unit, "get_status",
                  get_recycled_transmit_buffer_status_args,
                  status, [tx_buf |-> tx_buf],
                  get_recycled_transmit_buffer_status_result(status, tx_buf))
        /\ get_status_log' = get_status_log \cup
              { GetStatusEntry("get_recycled_transmit_buffer_status",
                               get_recycled_transmit_buffer_status_args) }

\* The arguments transmit hands to the firmware entry:
\* header_size, buffer.len() + header_size, buffer.as_ptr(), and the options.
transmit_args(header_size, buffer, src_addr, dest_addr, protocol) ==
    [header_size |-> header_size,
     buffer_size |-> AddCarry(buffer.len, header_size).sum,
     buffer |-> buffer.ptr,
     src_addr |-> src_addr, dest_addr |-> dest_addr, protocol |-> protocol]

\* `buffer.len() + header_size` panics on overflow in a build with overflow
\* checks (the debug profile) and wraps in one without (the release profile).
transmit ==
    /\ Idle
    /\ \E header_size \in HeaderSizes, buffer \in Buffers, src_addr \in OptMacs,
       dest_addr \in OptMacs, protocol \in OptProtocols :
        LET margs == [header_size |-> header_size, buffer |-> buffer,
                      src_addr |-> src_addr, dest_addr |-> dest_addr,
                      protocol |-> protocol]
        IN  /\ UNCHANGED get_status_log
            /\ IF overflow_checks /\ AddCarry(buffer.len, header_size).overflow
               THEN /\ invoked' = [method |-> "transmit", args |-> margs]
                    /\ fw_calls' = << >>
                    /\ fw_rets' = << >>
                    /\ result' = Panic("attempt to add with overflow")
                    /\ observed' = None
                    /\ UNCHANGED << overflow_checks, helperVars >>
               ELSE \E status \in StatusCodes :
                        Invoke("transmit", margs, "transmit",
                               transmit_args(header_size, buffer, src_addr,
                                             dest_addr, protocol),
                               status, Unit, from_status(status))

\* The arguments receive hands to the firmware entry; buffer_size goes in
\* holding buffer.len().
receive_args(buffer, header_size, src_addr, dest_addr, protocol) ==
    [header_size |-> header_size, buffer_size |-> buffer.len,
     buffer |-> buffer.ptr,
     src_addr |-> src_addr, dest_addr |-> dest_addr, protocol |-> protocol]

\* Mutant: the size is returned without looking at the status.
receive_result_unchecked(status, buffer_size) == Ok(buffer_size)

\* `Result::from(status)?; Ok(buffer_size)`
receive_result(status, buffer_size) ==
    IF from_status(status).kind = "Err" THEN from_status(status)
    ELSE Ok(buffer_size)

\* What the firmware's Receive() leaves in buffer_size (UEFI specification,
\* EFI_SIMPLE_NETWORK.Receive): the size of the packet it stored, which fits
\* the buffer, when it reports no error; the size the packet needs, larger
\* than the buffer, with EFI_BUFFER_TOO_SMALL; nothing promised otherwise.
receive_buffer_size_out(status, capacity) ==
    IF ~is_error(status) THEN { w \in Sizes : WordLeq(w, capacity) }
    ELSE IF status = EFI_BUFFER_TOO_SMALL
         THEN { w \in Sizes : ~WordLeq(w, capacity) }
    ELSE Sizes

receive ==
    /\ Idle
    /\ \E buffer \in Buffers, header_size \in OptDst, src_addr \in OptDst,
       dest_addr \in OptDst, protocol \in OptDst, status \in StatusCodes :
        \E buffer_size \in receive_buffer_size_out(status, buffer.len) :
            /\ Invoke("receive",
                      [buffer |-> buffer, header_size |-> header_size,
                       src_addr |-> src_addr, dest_addr |-> dest_addr,
                       protocol |-> protocol],
                      "receive",
                      receive_args(buffer, header_size, src_addr, dest_addr,
                                   protocol),
                      status, [buffer_size |-> buffer_size],
                      receive_result(status, buffer_size))
            /\ UNCHANGED get_status_log

\* The caller reads the four interrupt bits of a returned InterruptStatus.
InspectInterruptStatus ==
    /\ invoked.method = "get_interrupt_status"
    /\ result.kind = "Ok"
    /\ observed' = Some([receive_interrupt |-> receive_interrupt(result.val),
                         transmit_interrupt |-> transmit_interrupt(result.val),
                         command_interrupt |-> command_interrupt(result.val),
                         software_interrupt |-> software_interrupt(result.val)])
    /\ UNCHANGED << overflow_checks, invoked, fw_calls, fw_rets, result,
                    get_status_log, helperVars >>

\* The caller reads every counter of a returned NetworkStats.
InspectNetworkStats ==
    /\ invoked.method = "collect_statistics"
    /\ result.kind = "Ok"
    /\ observed' = Some([a \in Accessors |-> stat_accessor(result.val, a)])
    /\ UNCHANGED << overflow_checks, invoked, fw_calls, fw_rets, result,
                    get_status_log, helperVars >>

\* The caller is done with the returned value and goes on to its next call.
\* A panic is not returned from: the program has stopped.
Drop ==
    /\ result.kind \in { "Ok", "Err" }
    /\ invoked' = [method |-> "none", args |-> Unit]
    /\ fw_calls' = << >>
    /\ fw_rets' = << >>
    /\ result' = NoResult
    /\ observed' = None
    /\ UNCHANGED << overflow_checks, get_status_log, helperVars >>

\* ------------------------------------------------------------ helpers

\* How many times the model lets init and exit run.
MaxCalls == 2

\* table::system_table_boot(): the global system table as a Boot-phase
\* handle while boot services are active, None once they are exited.
system_table_boot(active) ==
    IF active THEN Some([phase |-> "Boot"]) ELSE None

\* Mutant: the global table is handed out without asking for the phase.
system_table_unchecked(active) == Ok([phase |-> "Boot"])

\* helpers::system_table():
\* table::system_table_boot().expect("boot services are not active")
system_table(active) ==
    IF IsSome(system_table_boot(active))
    THEN Ok(Unwrap(system_table_boot(active)))
    ELSE Panic("boot services are not active")

\* logger::init(st): the logger writes to the firmware's text output.
logger_init(output) == "stdout"
\* logger::disable(): the firmware text output is dropped.
logger_disable(output) == "disabled"
\* allocator::init(st): the allocator keeps a reference to boot services.
allocator_init(boot) == "boot"
\* allocator::exit_boot_services(): the reference is dropped.
allocator_exit_boot_services(boot) == "exited"

\* helpers::init: the state of the two helpers after it ran.
init_logger(feat, output) ==
    IF feat.logger THEN logger_init(output) ELSE output
\* Mutant: a repeated init drops the registration the first one made.
init_allocator_toggle(feat, boot) ==
    IF feat.global_allocator
    THEN (IF boot = "boot" THEN "unset" ELSE allocator_init(boot))
    ELSE boot
init_allocator(feat, boot) ==
    IF feat.global_allocator THEN allocator_init(boot) ELSE boot

\* helpers::exit: the state of the two helpers after it ran.
exit_logger(feat, output) ==
    IF feat.logger THEN logger_disable(output) ELSE output
\* Mutant: exit forgets the allocator.
exit_allocator_skipped(feat, boot) == boot
exit_allocator(feat, boot) ==
    IF feat.global_allocator THEN allocator_exit_boot_services(boot) ELSE boot

Bump(calls, op) ==
    [calls EXCEPT ![op] = IF @ < MaxCalls THEN @ + 1 ELSE @]

\* A helper that panicked has stopped the program.
Running == helper_last.result.kind # "Panic"

\* pub fn system_table() -> SystemTable<Boot>
SystemTableCall ==
    /\ Running
    /\ helper_last' = [op |-> "system_table", active |-> boot_services_active,
                       result |-> system_table(boot_services_active)]
    /\ UNCHANGED << features, boot_services_active, logger_output,
                    allocator_boot, helper_calls, snpVars >>

\* pub fn init(st: &mut SystemTable<Boot>) -> Result<()>: the caller holds a
\* Boot-phase table, so boot services are active.
HelperInitCall ==
    /\ Running
    /\ boot_services_active
    /\ helper_calls.init < MaxCalls
    /\ logger_output' = init_logger(features, logger_output)
    /\ allocator_boot' = init_allocator(features, allocator_boot)
    /\ helper_last' = [op |-> "init", active |-> boot_services_active,
                       result |-> Ok(Unit)]
    /\ helper_calls' = Bump(helper_calls, "init")
    /\ UNCHANGED << features, boot_services_active, snpVars >>

\* pub(crate) fn exit()
HelperExitCall ==
    /\ Running
    /\ helper_calls.exit < MaxCalls
    /\ logger_output' = exit_logger(features, logger_output)
    /\ allocator_boot' = exit_allocator(features, allocator_boot)
    /\ helper_last' = [op |-> "exit", active |-> boot_services_active,
                       result |-> Ok(Unit)]
    /\ helper_calls' = Bump(helper_calls, "exit")
    /\ UNCHANGED << features, boot_services_active, snpVars >>

\* SystemTable<Boot>::exit_boot_services: runs helpers::exit() and then
\* leaves the boot phase, once.
ExitBootServices ==
    /\ Running
    /\ boot_services_active
    /\ logger_output' = exit_logger(features, logger_output)
    /\ allocator_boot' = exit_allocator(features, allocator_boot)
    /\ boot_services_active' = FALSE
    /\ helper_last' = [op |-> "exit_boot_services", active |-> TRUE,
                       result |-> Ok(Unit)]
    /\ helper_calls' = Bump(helper_calls, "exit")
    /\ UNCHANGED << features, snpVars >>

\* A log record is emitted: where the logger writes it.
LogRecord ==
    /\ Running
    /\ features.logger
    /\ helper_last' = [op |-> "log", active |-> boot_services_active,
                       result |-> Ok(IF logger_output = "stdout"
                                     THEN { "stdout", "debugcon" }
                                     ELSE IF logger_output = "disabled"
                                          THEN { "debugcon" }
                                          ELSE {})]
    /\ UNCHANGED << features, boot_services_active, logger_output,
                    allocator_boot, helper_calls, snpVars >>

\* An allocation is requested from the global allocator.
Allocate ==
    /\ Running
    /\ features.global_allocator
    /\ helper_last' = [op |-> "alloc", active |-> boot_services_active,
                       result |-> Ok(IF allocator_boot = "boot"
                                     THEN "boot_services" ELSE "null")]
    /\ UNCHANGED << features, boot_services_active, logger_output,
                    allocator_boot, helper_calls, snpVars >>

\* ------------------------------------------------------------ specification

SnpInit ==
    /\ overflow_checks \in BOOL
    /\ invoked = [method |-> "none", args |-> Unit]
    /\ fw_calls = << >>
    /\ fw_rets = << >>
    /\ result = NoResult
    /\ observed = None
    /\ get_status_log = {}

HelperIdle ==
    /\ features = [logger |-> TRUE, global_allocator |-> TRUE]
    /\ boot_services_active = TRUE
    /\ logger_output = "unset"
    /\ allocator_boot = "unset"
    /\ helper_last = [op |-> "none", active |-> TRUE, result |-> NoResult]
    /\ helper_calls = [init |-> 0, exit |-> 0]

Init == SnpInit /\ HelperIdle

Next ==
    \/ start
    \/ stop
    \/ initialize
    \/ reset
    \/ shutdown
    \/ receive_filters
    \/ station_address
    \/ reset_statistics
    \/ collect_statistics
    \/ mcast_ip_to_mac
    \/ read_nv_data
    \/ write_nv_data
    \/ get_interrupt_status
    \/ get_recycled_transmit_buffer_status
    \/ transmit
    \/ receive
    \/ InspectInterruptStatus
    \/ InspectNetworkStats
    \/ Drop

Spec == Init /\ [][Next]_vars

\* The helper lifecycle on its own, for every feature configuration.
SnpIdle ==
    /\ overflow_checks = FALSE
    /\ invoked = [method |-> "none", args |-> Unit]
    /\ fw_calls = << >>
    /\ fw_rets = << >>
    /\ result = NoResult
    /\ observed = None
    /\ get_status_log = {}

HelperInit ==
    /\ features \in [logger : BOOL, global_allocator : BOOL]
    /\ boot_services_active = TRUE
    /\ logger_output = "unset"
    /\ allocator_boot = "unset"
    /\ helper_last = [op |-> "none", active |-> TRUE, result |-> NoResult]
    /\ helper_calls = [init |-> 0, exit |-> 0]
    /\ SnpIdle

HelperNext ==
    \/ SystemTableCall
    \/ HelperInitCall
    \/ HelperExitCall
    \/ ExitBootServices
    \/ LogRecord
    \/ Allocate

HelperSpec == HelperInit /\ [][HelperNext]_vars


\* ------------------------------------------------------------ claims

\* The firmware call the method in progress made, and what came back.
TheCall == fw_calls[1]
TheRet == fw_rets[1]
\* Bit 63 of a status code.
TopBit(status) == (status[1] \div (2 ^ 15)) % 2 = 1

\* C1: whatever status the firmware returns to whichever SimpleNetwork
\* method, the method returns Ok when the top bit of the status is clear
\* (success or warning) and Err carrying exactly that status when it is set.
C1_StatusToResult ==
    \A i \in 1..Len(fw_rets) :
        /\ ~TopBit(fw_rets[i].status) => result.kind = "Ok"
        /\ TopBit(fw_rets[i].status) =>
              /\ result.kind = "Err"
              /\ result.status = Some(fw_rets[i].status)

\* C1 witness: collect_statistics got EFI_BUFFER_TOO_SMALL and returned it.
C1_Witness ==
    /\ invoked.method = "collect_statistics"
    /\ Len(fw_rets) = 1
    /\ TheRet.status = EFI_BUFFER_TOO_SMALL
    /\ result.kind = "Err"
    /\ result.status = Some(EFI_BUFFER_TOO_SMALL)

\* C2: each NetworkStats accessor returns None exactly when the field of its
\* own name is all ones, and otherwise Some of that field's value.
C2_StatsSentinel ==
    (invoked.method = "collect_statistics" /\ IsSome(observed)) =>
        /\ DOMAIN Unwrap(observed) = FieldNames
        /\ \A f \in FieldNames :
              Unwrap(observed)[f] =
                  IF result.val[f] = << 65535, 65535, 65535, 65535 >>
                  THEN << >>
                  ELSE << result.val[f] >>

\* C2 witness: a table with an all-ones counter, read as None, and a zero
\* counter, read as Some(0).
C2_Witness ==
    /\ invoked.method = "collect_statistics"
    /\ IsSome(observed)
    /\ result.val["tx_total_bytes"] = WordAllOnes
    /\ Unwrap(observed)["tx_total_bytes"] = None
    /\ result.val["rx_total_bytes"] = WordZero
    /\ Unwrap(observed)["rx_total_bytes"] = Some(WordZero)

\* Bit k (0..15) of the low half of a u32.
LowBit(v, k) == (v[2] \div (2 ^ k)) % 2 = 1

\* C3: receive/transmit/command/software_interrupt are bits 0/1/2/3 of the
\* value, bits 4..31 change none of them, and InterruptStatus::new() reports
\* all four false.
C3_InterruptBits ==
    /\ (invoked.method = "get_interrupt_status" /\ IsSome(observed)) =>
          LET o == Unwrap(observed)
              v == result.val
          IN  /\ o.receive_interrupt = LowBit(v, 0)
              /\ o.transmit_interrupt = LowBit(v, 1)
              /\ o.command_interrupt = LowBit(v, 2)
              /\ o.software_interrupt = LowBit(v, 3)
              /\ \A w \in U32Samples :
                    (w[2] % 16 = v[2] % 16) =>
                        /\ receive_interrupt(w) = o.receive_interrupt
                        /\ transmit_interrupt(w) = o.transmit_interrupt
                        /\ command_interrupt(w) = o.command_interrupt
                        /\ software_interrupt(w) = o.software_interrupt
    /\ ~receive_interrupt(InterruptStatus_new)
    /\ ~transmit_interrupt(InterruptStatus_new)
    /\ ~command_interrupt(InterruptStatus_new)
    /\ ~software_interrupt(InterruptStatus_new)

\* C3 witness: the pattern 0b0101 with reserved bits set above it.
C3_Witness ==
    /\ invoked.method = "get_interrupt_status"
    /\ IsSome(observed)
    /\ result.val = << LimbMax, 21 >>
    /\ Unwrap(observed) = [receive_interrupt |-> TRUE, transmit_interrupt |-> FALSE,
                           command_interrupt |-> TRUE, software_interrupt |-> FALSE]

\* The sum of two usize values as a number: five limbs, never wrapped.
WideSum(a, b) ==
    LET s4 == a[4] + b[4]
        s3 == a[3] + b[3] + (s4 \div 65536)
        s2 == a[2] + b[2] + (s3 \div 65536)
        s1 == a[1] + b[1] + (s2 \div 65536)
    IN  << s1 \div 65536, s1 % 65536, s2 % 65536, s3 % 65536, s4 % 65536 >>

\* C4: the buffer size transmit passes to the firmware is payload.length +
\* header_size, header_size is passed through, and the three optional
\* arguments arrive as given.
C4_TransmitBufferSize ==
    (invoked.method = "transmit" /\ Len(fw_calls) = 1) =>
        /\ << 0 >> \o TheCall.args.buffer_size =
              WideSum(invoked.args.buffer.len, invoked.args.header_size)
        /\ TheCall.args.header_size = invoked.args.header_size
        /\ TheCall.args.src_addr = invoked.args.src_addr
        /\ TheCall.args.dest_addr = invoked.args.dest_addr
        /\ TheCall.args.protocol = invoked.args.protocol

\* C5: the buffer length transmit hands to the firmware never exceeds the
\* length of the slice whose pointer it hands over in the same call.
C5_TransmitLengthWithinSlice ==
    (invoked.method = "transmit" /\ Len(fw_calls) = 1) =>
        /\ TheCall.args.buffer = invoked.args.buffer.ptr
        /\ WordLeq(TheCall.args.buffer_size, invoked.args.buffer.len)

C7_Statistics ==
    /\ invoked.method = "collect_statistics" =>
          /\ Len(fw_calls) = 1
          /\ TheCall.entry = "statistics"
          /\ TheCall.args.reset = FALSE
          /\ IsSome(TheCall.args.stats_table)
          /\ \A f \in FieldNames :
                Unwrap(TheCall.args.stats_table)[f] = << 0, 0, 0, 0 >>
          /\ TheCall.args.stats_size = << << 0, 0, 0, 26 * 8 >> >>
          /\ TopBit(TheRet.status) => (result.kind = "Err" /\ result.val = Unit)
    /\ invoked.method = "reset_statistics" =>
          /\ Len(fw_calls) = 1
          /\ TheCall.entry = "statistics"
          /\ TheCall.args.reset = TRUE
          /\ TheCall.args.stats_size = << >>
          /\ TheCall.args.stats_table = << >>

\* C7 witness: the firmware wrote counters and then reported an error.
C7_Witness ==
    /\ invoked.method = "collect_statistics"
    /\ Len(fw_calls) = 1
    /\ TheRet.out.stats_table # NetworkStats_default
    /\ TheRet.status = EFI_NOT_READY
    /\ result.kind = "Err"

\* The public methods that reach the firmware's get_status entry; neither
\* takes an argument.
GetStatusMethods == { "get_interrupt_status", "get_recycled_transmit_buffer_status" }

\* C8: get_status can be called through the public interface with each of
\* the four present/absent combinations of its two out-parameters: once the
\* caller has used every public method that reaches get_status, all four
\* combinations have been issued.  get_interrupt_status passes the interrupt
\* destination only, get_recycled_transmit_buffer_status the buffer
\* destination only, returning None iff the pointer was left null.
C8_GetStatusCombinations ==
    /\ GetStatusMethods \subseteq { e.method : e \in get_status_log } =>
          \A i \in BOOL, b \in BOOL :
              \E e \in get_status_log : e.interrupt_status = i /\ e.tx_buf = b
    /\ invoked.method = "get_interrupt_status" =>
          (IsSome(TheCall.args.interrupt_status) /\ TheCall.args.tx_buf = None)
    /\ invoked.method = "get_recycled_transmit_buffer_status" =>
          /\ TheCall.args.interrupt_status = None
          /\ IsSome(TheCall.args.tx_buf)
          /\ result.kind = "Ok" =>
                (result.val = None <=> TheRet.out.tx_buf = "null")

\* Is the multicast filter count the length of the multicast list?
McastConsistent(count, list) ==
    \/ count = None /\ list = None
    \/ IsSome(count) /\ IsSome(list) /\ Unwrap(count) = WordOf(Len(Unwrap(list)))

\* C9: the firmware receive_filters entry is only ever called with a
\* multicast count that matches the multicast list; an inconsistent call
\* fails before any firmware call.
C9_ReceiveFiltersValidated ==
    invoked.method = "receive_filters" =>
        \A i \in 1..Len(fw_calls) :
            McastConsistent(fw_calls[i].args.mcast_filter_count,
                            fw_calls[i].args.mcast_filter)

\* C10: system_table() returns a Boot-phase handle only when boot services
\* are active, panics with "boot services are not active" once they are
\* exited, and the exited phase is never left.
C10_SystemTablePhase ==
    /\ [](helper_last.op = "system_table" =>
            /\ helper_last.active =>
                  helper_last.result = Ok([phase |-> "Boot"])
            /\ ~helper_last.active =>
                  /\ helper_last.result.kind = "Panic"
                  /\ helper_last.result.val = "boot services are not active")
    /\ [][helper_last'.op = "system_table" =>
            helper_last'.active = boot_services_active]_vars
    /\ [][~boot_services_active => ~boot_services_active']_vars

\* C10 witness: init ran, boot services were exited, and system_table() was
\* called.
C10_Witness ==
    /\ helper_calls.init > 0
    /\ ~boot_services_active
    /\ helper_last.op = "system_table"
    /\ helper_last.result = Panic("boot services are not active")

\* The helper functions that run helpers::exit().
ExitOps == { "exit", "exit_boot_services" }

\* C11: exit() runs in every feature configuration; after it, the logger's
\* firmware text output is disabled if the logger is compiled in and the
\* allocator has been told that boot services are exited if the allocator is
\* compiled in, whether or not init() ran; a helper that is not compiled in
\* is left as it was.  So after the boot services exit no log record goes to
\* the firmware text output and no allocation goes to boot services.
C11_ExitDeactivates ==
    /\ [](helper_last.op \in ExitOps =>
            /\ features.logger => logger_output = "disabled"
            /\ features.global_allocator => allocator_boot = "exited")
    /\ [][helper_last'.op \in ExitOps =>
            /\ ~features.logger => logger_output' = logger_output
            /\ ~features.global_allocator => allocator_boot' = allocator_boot]_vars
    /\ []((helper_last.op = "log" /\ ~helper_last.active) =>
            "stdout" \notin helper_last.result.val)
    /\ []((helper_last.op = "alloc" /\ ~helper_last.active) =>
            helper_last.result.val # "boot_services")

\* C11 witness: both helpers compiled in and initialised, boot services
\* exited, and an allocation requested afterwards.
C11_Witness ==
    /\ features = [logger |-> TRUE, global_allocator |-> TRUE]
    /\ helper_calls.init > 0
    /\ ~boot_services_active
    /\ logger_output = "disabled"
    /\ helper_last.op = "alloc"
    /\ helper_last.result.val = "null"

\* The registration a helper has after init() in this feature configuration.
Registered(feat) ==
    [logger_output |-> IF feat.logger THEN "stdout" ELSE "unset",
     allocator_boot |-> IF feat.global_allocator THEN "boot" ELSE "unset"]

====
